---- MODULE Spec2Model ----
(***************************************************************************)
(* The staging + conditional-merge upsert of the sentiment pipeline        *)
(* (src/vercel/api/bigquery/pipeline.py) and the orchestration around it.  *)
(*                                                                         *)
(* A table is a sequence of rows (BigQuery tables carry no key, so two     *)
(* rows may hold the same query).  Scores are in tenths (-10 is -1.0).     *)
(* Time is a logical clock: a merge job executes at a later instant than   *)
(* every job that completed before it.                                     *)
(*                                                                         *)
(* The classifier (analyze_sentiment, last_monday_str) has a specification *)
(* of its own, SpecClassify: strings are sequences of characters, the      *)
(* lexicon's compound score is an input, dates are day numbers.            *)
(***************************************************************************)
EXTENDS Integers, Sequences, FiniteSets, TLC

VARIABLES
    tableExists,  \* dataset -> the target table `project.dataset.test_table` exists
    target,       \* dataset -> its rows, a sequence of PersistedRow
    staging,      \* <<dataset, suffix>> -> [exists, rows]: `_staging_test_table_<suffix>`
    now,          \* the clock
    runs,         \* upsert_rows_to_bq invocations started so far
    merged,       \* the merges that succeeded: how many, the first and the last batch,
                  \* and the target as the first one left it
    pc,           \* per invocation slot: where upsert_rows_to_bq stands
    batch,        \* per invocation slot: the `rows` argument
    dataset,      \* per invocation slot: the `dataset` argument
    suffix,       \* per invocation slot: uuid.uuid4().hex[:8]
    calls,        \* per invocation slot: the storage calls issued, in order
    failed,       \* per invocation slot: the storage call that failed, or "none"
    envOk,        \* BIGQUERY_PROJECT and the service-account credentials are configured
    datasets,     \* the list handed to run_for_datasets
    idx,          \* position of the for loop in `datasets`
    opc,          \* where run_for_datasets / run_one stands
    fetched,      \* position -> what fetch_queries did for that client
    ops,          \* position -> the collaborator calls made for that client, in order
    results,      \* the `results` list of run_for_datasets
    today,        \* date.today(), as a day number
    apc,          \* where analyze_sentiment stands
    queries,      \* its `queries` argument, each query a sequence of characters
    destinations, \* its `destinations` argument
    exclusions,   \* its `exclusions` argument
    ctx_keywords, \* its `ctx_keywords` argument
    negative_keywords, \* its `negative_keywords` argument
    lex,          \* position -> the compound score the lexicon gave for that query
    monday,       \* its local `monday`
    out           \* its local `out`

engineVars == <<tableExists, target, staging, now, runs, merged,
                pc, batch, dataset, suffix, calls, failed>>
orchVars == <<envOk, datasets, idx, opc, fetched, ops, results>>
classVars == <<today, apc, queries, destinations, exclusions, ctx_keywords,
               negative_keywords, lex, monday, out>>
vars == <<engineVars, orchVars, classVars>>

----------------------------------------------------------------------------
\* Bounds of the model.

\* upsert_rows_to_bq invocations per behaviour, and the longest `datasets` list
MaxRuns == 2

Procs == {1, 2}
Datasets == {"d1", "d2"}
Queries == {"q1", "q2"}
\* the 8 hex digits of the staging suffix, cut down to two values
Suffixes == {"0a", "0b"}
\* Sentiment_Score values, in tenths
Scores == {0, -10}
\* MONDAY strings, as day numbers in ISO form
Mondays == {[iso |-> 7], [iso |-> 14]}

\* thresholds that count 0.3 and -0.3 in
CategoryInclusive(s) == IF s >= 3 THEN "positive" ELSE IF s <= -3 THEN "negative" ELSE "neutral"

\* cat = "positive" if s > 0.3 else "negative" if s < -0.3 else "neutral"
Category(s) == IF s > 3 THEN "positive" ELSE IF s < -3 THEN "negative" ELSE "neutral"

\* (score, category) as analyze_sentiment pairs them
ClassifierSentiments == {<<s, Category(s)>> : s \in Scores}

\* and one pair no classifier builds, whose category alone differs
Sentiments == ClassifierSentiments \cup {<<-10, "neutral">>}

\* one classified row, as analyze_sentiment builds it
ClassifiedRow(q, s, m) ==
    [query |-> q, Sentiment_Score |-> s[1], Sentiment_Category |-> s[2], MONDAY |-> m]

RowKinds == {<<q, s>> : q \in Queries, s \in Sentiments}

\* a total order on row kinds, used to enumerate each two-row batch once per content
KindRank(k) == (IF k[1] = "q1" THEN 0 ELSE 2) + (IF k[2][1] = 0 THEN 0 ELSE 1)

OrderedPairs ==
    {kk \in (Queries \X ClassifierSentiments) \X (Queries \X ClassifierSentiments) :
        KindRank(kk[1]) <= KindRank(kk[2])}

\* the `rows` lists handed to upsert_rows_to_bq: one row of any kind, or two rows
\* a classifier can build (the same query twice included), sharing one MONDAY
Batches ==
    {<<ClassifiedRow(k[1], k[2], m)>> : k \in RowKinds, m \in Mondays}
    \cup {<<ClassifiedRow(kk[1][1], kk[1][2], m), ClassifiedRow(kk[2][1], kk[2][2], m)>> :
            kk \in OrderedPairs, m \in Mondays}

\* the queries of a list of rows
QueriesOf(rows) == {rows[i].query : i \in 1..Len(rows)}

\* no query appears twice in the list
NoRepeats(rows) == \A i, j \in 1..Len(rows) : rows[i].query = rows[j].query => i = j

\* the batches that hold each query once, stamped with the first MONDAY
UniqueBatches == {b \in Batches : NoRepeats(b) /\ b[1].MONDAY = [iso |-> 7]}

\* those of them a classifier can build
ClassifiedBatches ==
    {b \in UniqueBatches :
        \A i \in 1..Len(b) : b[i].Sentiment_Category = Category(b[i].Sentiment_Score)}

NoStaging == [exists |-> FALSE, rows |-> <<>>]

\* staging_table_id = f"{project}.{dataset}.{staging_table}"
StagingId(p) == <<dataset[p], suffix[p]>>

----------------------------------------------------------------------------
\* The MERGE statement (merge_sql).

\* DATE(S.MONDAY): the staged string cast to a date
DateOf(str) == str.iso

\* ON T.query = S.query
Matches(t, S) == {j \in 1..Len(S) : S[j].query = t.query}

\* the update predicate without its category disjunct
ChangedScoreOnly(t, s) == t.Sentiment_Score # s.Sentiment_Score

\* WHEN MATCHED AND (score differs OR category differs)
Changed(t, s) ==
    \/ t.Sentiment_Score # s.Sentiment_Score
    \/ t.Sentiment_Category # s.Sentiment_Category

\* the staged rows that would update target row t
UpdSources(t, S) == {j \in Matches(t, S) : Changed(t, S[j])}

\* an UPDATE branch that also restamps the provenance columns
UpdateRowRestamp(t, s, ts) ==
    [t EXCEPT !.Sentiment_Score = s.Sentiment_Score,
              !.Sentiment_Category = s.Sentiment_Category,
              !.MONDAY = DateOf(s.MONDAY),
              !.inserted_at = ts,
              !.updated_at = ts]

\* an UPDATE branch that forgets the category
UpdateRowKeepCategory(t, s, ts) ==
    [t EXCEPT !.Sentiment_Score = s.Sentiment_Score,
              !.updated_at = ts]

\* THEN UPDATE SET score, category, updated_at = CURRENT_TIMESTAMP()
UpdateRow(t, s, ts) ==
    [t EXCEPT !.Sentiment_Score = s.Sentiment_Score,
              !.Sentiment_Category = s.Sentiment_Category,
              !.updated_at = ts]

\* an INSERT branch that keeps the staged, provisional inserted_at
InsertRowStaged(s, ts) ==
    [query |-> s.query,
     Sentiment_Score |-> s.Sentiment_Score,
     Sentiment_Category |-> s.Sentiment_Category,
     MONDAY |-> DateOf(s.MONDAY),
     inserted_at |-> s.inserted_at,
     updated_at |-> ts]

\* WHEN NOT MATCHED THEN INSERT ... VALUES (...)
InsertRow(s, ts) ==
    [query |-> s.query,
     Sentiment_Score |-> s.Sentiment_Score,
     Sentiment_Category |-> s.Sentiment_Category,
     MONDAY |-> DateOf(s.MONDAY),
     inserted_at |-> ts,
     updated_at |-> ts]

\* a merge without its ON clause: every staged row counts as not matched
NotMatchedAll(T, S) == S

\* the staged rows no target row joins with
NotMatched(T, S) ==
    SelectSeq(S, LAMBDA s : \A i \in 1..Len(T) : T[i].query # s.query)

\* A target row joined by several staged rows makes the statement fail
\* ("UPDATE/MERGE must match at most one source row for each target row").
\* Whether the engine counts the rows the ON clause joins (strict) or only
\* those the WHEN clause lets through is left open.
CardinalityError(T, S, strict) ==
    \E i \in 1..Len(T) :
        \/ Cardinality(UpdSources(T[i], S)) > 1
        \/ strict /\ Cardinality(Matches(T[i], S)) > 1

\* the target after a successful MERGE executed at time ts
MergeResult(T, S, ts) ==
    [i \in 1..Len(T) |->
        IF UpdSources(T[i], S) = {} THEN T[i]
        ELSE UpdateRow(T[i], S[CHOOSE j \in UpdSources(T[i], S) : TRUE], ts)]
    \o [i \in 1..Len(NotMatched(T, S)) |-> InsertRow(NotMatched(T, S)[i], ts)]

\* staged_rows: the batch plus the provisional now_str timestamps
StagedRows(rows, nowStr) ==
    [i \in 1..Len(rows) |->
        [query |-> rows[i].query,
         Sentiment_Score |-> rows[i].Sentiment_Score,
         Sentiment_Category |-> rows[i].Sentiment_Category,
         MONDAY |-> rows[i].MONDAY,
         inserted_at |-> nowStr,
         updated_at |-> nowStr]]

----------------------------------------------------------------------------
\* upsert_rows_to_bq, one action per storage call and outcome.

EngineInit ==
    /\ tableExists = [d \in Datasets |-> FALSE]
    /\ target = [d \in Datasets |-> <<>>]
    /\ staging = [k \in Datasets \X Suffixes |-> NoStaging]
    /\ now = 0
    /\ runs = 0
    /\ merged = [n |-> 0, first |-> <<>>, last |-> <<>>, snap |-> <<>>]
    /\ pc = [p \in Procs |-> "idle"]
    /\ batch = [p \in Procs |-> <<>>]
    /\ dataset = [p \in Procs |-> "d1"]
    /\ suffix = [p \in Procs |-> "0a"]
    /\ calls = [p \in Procs |-> <<>>]
    /\ failed = [p \in Procs |-> "none"]

\* no run_for_datasets call is in progress
OrchIdle ==
    /\ envOk = TRUE
    /\ datasets = <<>>
    /\ idx = 1
    /\ opc = "idle"
    /\ fetched = <<>>
    /\ ops = <<>>
    /\ results = <<>>

\* no analyze_sentiment call is in progress
ClassIdle ==
    /\ today = 7
    /\ apc = "idle"
    /\ queries = <<>>
    /\ destinations = <<>>
    /\ exclusions = <<>>
    /\ ctx_keywords = <<>>
    /\ negative_keywords = <<>>
    /\ lex = <<>>
    /\ monday = [iso |-> 7]
    /\ out = <<>>

Init == EngineInit /\ OrchIdle /\ ClassIdle

Ended(p) == pc[p] \in {"returned", "raised"}

Active(p) == pc[p] \in {"ensure", "load", "merge", "delete"}

\* the call: table_id and the staging name are fixed before any storage call
BeginCore(p, d, rows) ==
    /\ pc[p] = "idle" \/ Ended(p)
    /\ runs < MaxRuns
    /\ runs' = runs + 1
    /\ \E sfx \in Suffixes : suffix' = [suffix EXCEPT ![p] = sfx]
    /\ dataset' = [dataset EXCEPT ![p] = d]
    /\ batch' = [batch EXCEPT ![p] = rows]
    /\ pc' = [pc EXCEPT ![p] = "ensure"]
    /\ calls' = [calls EXCEPT ![p] = <<>>]
    /\ failed' = [failed EXCEPT ![p] = "none"]
    /\ UNCHANGED <<tableExists, target, staging, now, merged>>

Begin(p, d, rows) == BeginCore(p, d, rows) /\ UNCHANGED <<orchVars, classVars>>

\* a storage call of invocation p raised: the exception leaves upsert_rows_to_bq
Raises(p, call) ==
    /\ pc' = [pc EXCEPT ![p] = "raised"]
    /\ failed' = [failed EXCEPT ![p] = call]

\* ensure_table_schema: CREATE TABLE IF NOT EXISTS, then two ALTER TABLE ... ADD
\* COLUMN IF NOT EXISTS
EnsureTableSchema(p) ==
    /\ pc[p] = "ensure"
    /\ calls' = [calls EXCEPT ![p] = Append(@, "ensure")]
    /\ tableExists' = [tableExists EXCEPT ![dataset[p]] = TRUE]
    /\ pc' = [pc EXCEPT ![p] = "load"]
    /\ UNCHANGED <<target, staging, now, runs, merged, batch, dataset, suffix, failed>>
    /\ UNCHANGED <<orchVars, classVars>>

\* one of its three statements raised, before or after the table was created
EnsureFails(p) ==
    /\ pc[p] = "ensure"
    /\ calls' = [calls EXCEPT ![p] = Append(@, "ensure")]
    /\ \E created \in BOOLEAN :
          tableExists' = [tableExists EXCEPT ![dataset[p]] = @ \/ created]
    /\ Raises(p, "ensure")
    /\ UNCHANGED <<target, staging, now, runs, merged, batch, dataset, suffix>>
    /\ UNCHANGED <<orchVars, classVars>>

\* load_table_from_file(...).result() with WRITE_TRUNCATE
LoadStaging(p) ==
    /\ pc[p] = "load"
    /\ calls' = [calls EXCEPT ![p] = Append(@, "load")]
    /\ staging' = [staging EXCEPT ![StagingId(p)] =
                      [exists |-> TRUE, rows |-> StagedRows(batch[p], now)]]
    /\ pc' = [pc EXCEPT ![p] = "merge"]
    /\ UNCHANGED <<tableExists, target, now, runs, merged, batch, dataset, suffix, failed>>
    /\ UNCHANGED <<orchVars, classVars>>

\* the load job raised: nothing was written
LoadFails(p) ==
    /\ pc[p] = "load"
    /\ calls' = [calls EXCEPT ![p] = Append(@, "load")]
    /\ Raises(p, "load")
    /\ UNCHANGED <<tableExists, target, staging, now, runs, merged, batch, dataset, suffix>>
    /\ UNCHANGED <<orchVars, classVars>>

\* bq.query(merge_sql).result(): the statement runs, atomically; it raises when
\* the staging table is gone or a target row joins several staged rows
Merge(p) ==
    /\ pc[p] = "merge"
    /\ calls' = [calls EXCEPT ![p] = Append(@, "merge")]
    /\ \E strict \in BOOLEAN :
          IF \/ ~tableExists[dataset[p]]
             \/ ~staging[StagingId(p)].exists
             \/ CardinalityError(target[dataset[p]], staging[StagingId(p)].rows, strict)
          THEN /\ Raises(p, "merge")
               /\ UNCHANGED <<target, merged, now>>
          ELSE /\ now' = now + 1
               /\ target' = [target EXCEPT ![dataset[p]] =
                                MergeResult(@, staging[StagingId(p)].rows, now')]
               /\ merged' = [n |-> merged.n + 1,
                             first |-> IF merged.n = 0 THEN batch[p] ELSE merged.first,
                             last |-> batch[p],
                             snap |-> IF merged.n = 0 THEN target'[dataset[p]]
                                      ELSE merged.snap]
               /\ pc' = [pc EXCEPT ![p] = "delete"]
               /\ UNCHANGED failed
    /\ UNCHANGED <<tableExists, staging, runs, batch, dataset, suffix>>
    /\ UNCHANGED <<orchVars, classVars>>

\* the merge job raised for a reason of the storage layer: the target keeps its rows
MergeFails(p) ==
    /\ pc[p] = "merge"
    /\ calls' = [calls EXCEPT ![p] = Append(@, "merge")]
    /\ Raises(p, "merge")
    /\ UNCHANGED <<tableExists, target, staging, now, runs, merged, batch, dataset, suffix>>
    /\ UNCHANGED <<orchVars, classVars>>

\* bq.delete_table(staging_table_id, not_found_ok=True), then the function returns
DropStaging(p) ==
    /\ pc[p] = "delete"
    /\ calls' = [calls EXCEPT ![p] = Append(@, "delete")]
    /\ staging' = [staging EXCEPT ![StagingId(p)] = NoStaging]
    /\ pc' = [pc EXCEPT ![p] = "returned"]
    /\ UNCHANGED <<tableExists, target, now, runs, merged, batch, dataset, suffix, failed>>
    /\ UNCHANGED <<orchVars, classVars>>

\* a cleanup whose exception is not swallowed
DropFailsRaises(p) ==
    /\ pc[p] = "delete"
    /\ calls' = [calls EXCEPT ![p] = Append(@, "delete")]
    /\ Raises(p, "delete")
    /\ UNCHANGED <<tableExists, target, staging, now, runs, merged, batch, dataset, suffix>>
    /\ UNCHANGED <<orchVars, classVars>>

\* delete_table raised: except Exception: pass
DropFails(p) ==
    /\ pc[p] = "delete"
    /\ calls' = [calls EXCEPT ![p] = Append(@, "delete")]
    /\ failed' = [failed EXCEPT ![p] = "delete"]
    /\ pc' = [pc EXCEPT ![p] = "returned"]
    /\ UNCHANGED <<tableExists, target, staging, now, runs, merged, batch, dataset, suffix>>
    /\ UNCHANGED <<orchVars, classVars>>

\* the storage calls when the storage layer does not fail
StepOk(p) ==
    \/ EnsureTableSchema(p)
    \/ LoadStaging(p)
    \/ Merge(p)
    \/ DropStaging(p)

\* the storage calls failing
StepFails(p) ==
    \/ EnsureFails(p)
    \/ LoadFails(p)
    \/ MergeFails(p)
    \/ DropFails(p)

\* Invocations one after another on one target table, any batch, sound storage.
Next ==
    \/ \E rows \in Batches : Begin(1, "d1", rows)
    \/ StepOk(1)

Spec == Init /\ [][Next]_vars

\* Invocations one after another on one target table, any storage call may fail.
NextFail ==
    \/ \E rows \in UniqueBatches : Begin(1, "d1", rows)
    \/ StepOk(1)
    \/ StepFails(1)

SpecFail == Init /\ [][NextFail]_vars

\* Invocations of two callers interleaved at their storage calls, on one target
\* table; a call raises only for what it finds in the tables.
NextConc ==
    \E p \in Procs :
        \/ \E rows \in ClassifiedBatches : Begin(p, "d1", rows)
        \/ StepOk(p)

SpecConc == Init /\ [][NextConc]_vars

----------------------------------------------------------------------------
\* run_for_datasets and run_one.

\* the `datasets` lists
DatasetLists == UNION {[1..n -> Datasets] : n \in 1..MaxRuns}

\* what SELECT DISTINCT query returns when it returns rows
QueryLists == {<<"q1">>, <<"q1", "q2">>}

\* the lists analyze_sentiment can return for `queries`: one row per query, in order
AnalyzeOutputs(qs) ==
    {b \in ClassifiedBatches :
        Len(b) = Len(qs) /\ \A i \in 1..Len(b) : b[i].query = qs[i]}

NotFetched == [done |-> FALSE, raised |-> FALSE, queries |-> <<>>]

InitOrch ==
    /\ EngineInit
    /\ ClassIdle
    /\ envOk \in BOOLEAN
    /\ datasets \in DatasetLists
    /\ idx = 1
    /\ opc = "loop"
    /\ fetched = [i \in 1..Len(datasets) |-> NotFetched]
    /\ ops = [i \in 1..Len(datasets) |-> <<>>]
    /\ results = <<>>

\* the exception leaves run_one and, uncaught, run_for_datasets
Propagates == opc' = "aborted"

\* results.append(run_one(ds)), and the loop moves on
Appends(result) ==
    /\ results' = Append(results, result)
    /\ idx' = idx + 1
    /\ opc' = "loop"

\* for ds in datasets: run_one(ds) checks BIGQUERY_PROJECT and builds the client
RunOneEnter ==
    /\ opc = "loop" /\ idx <= Len(datasets)
    /\ ops' = [ops EXCEPT ![idx] = Append(@, "get_bq_client")]
    /\ IF envOk THEN opc' = "fetch" ELSE Propagates
    /\ UNCHANGED <<envOk, datasets, idx, fetched, results>>
    /\ UNCHANGED <<engineVars, classVars>>

\* a fetch_queries without its try/except: the query's exception leaves run_one
FetchQueriesUncaught ==
    /\ opc = "fetch"
    /\ ops' = [ops EXCEPT ![idx] = Append(@, "fetch_queries")]
    /\ \/ /\ \E qs \in QueryLists \cup {<<>>} :
                fetched' = [fetched EXCEPT ![idx] =
                               [done |-> TRUE, raised |-> FALSE, queries |-> qs]]
          /\ opc' = "fetched"
       \/ /\ fetched' = [fetched EXCEPT ![idx] =
                            [done |-> TRUE, raised |-> TRUE, queries |-> <<>>]]
          /\ Propagates
    /\ UNCHANGED <<envOk, datasets, idx, results>>
    /\ UNCHANGED <<engineVars, classVars>>

\* fetch_queries: the rows of the query, or [] when it raised
FetchQueries ==
    /\ opc = "fetch"
    /\ ops' = [ops EXCEPT ![idx] = Append(@, "fetch_queries")]
    /\ \/ \E qs \in QueryLists \cup {<<>>} :
             fetched' = [fetched EXCEPT ![idx] =
                            [done |-> TRUE, raised |-> FALSE, queries |-> qs]]
       \/ fetched' = [fetched EXCEPT ![idx] =
                         [done |-> TRUE, raised |-> TRUE, queries |-> <<>>]]
    /\ opc' = "fetched"
    /\ UNCHANGED <<envOk, datasets, idx, results>>
    /\ UNCHANGED <<engineVars, classVars>>

\* if not queries: return {"dataset": dataset, "rows": 0, "note": "no queries"}
NoQueries ==
    /\ opc = "fetched" /\ fetched[idx].queries = <<>>
    /\ Appends([dataset |-> datasets[idx], rows |-> 0, note |-> "no queries"])
    /\ UNCHANGED <<envOk, datasets, fetched, ops>>
    /\ UNCHANGED <<engineVars, classVars>>

\* s3_load_context_keywords, s3_load_negative_keywords: neither raises
LoadKeywords ==
    /\ opc = "fetched" /\ fetched[idx].queries # <<>>
    /\ ops' = [ops EXCEPT ![idx] = @ \o <<"s3_load_context_keywords",
                                            "s3_load_negative_keywords">>]
    /\ opc' = "keywords"
    /\ UNCHANGED <<envOk, datasets, idx, fetched, results>>
    /\ UNCHANGED <<engineVars, classVars>>

\* rows = analyze_sentiment(...); upsert_rows_to_bq(bq, rows, ...) is entered
AnalyzeAndUpsert ==
    /\ opc = "keywords"
    /\ \E rows \in AnalyzeOutputs(fetched[idx].queries) : BeginCore(1, datasets[idx], rows)
    /\ ops' = [ops EXCEPT ![idx] = @ \o <<"analyze_sentiment", "upsert_rows_to_bq">>]
    /\ opc' = "upsert"
    /\ UNCHANGED <<envOk, datasets, idx, fetched, results>>
    /\ UNCHANGED classVars

\* return {"dataset": dataset, "rows": len(rows), "ok": True}
UpsertReturned ==
    /\ opc = "upsert" /\ pc[1] = "returned"
    /\ Appends([dataset |-> datasets[idx], rows |-> Len(batch[1]), ok |-> TRUE])
    /\ ops' = [ops EXCEPT ![idx] = @ \o calls[1]]
    /\ UNCHANGED <<envOk, datasets, fetched>>
    /\ UNCHANGED <<engineVars, classVars>>

\* upsert_rows_to_bq raised
UpsertRaised ==
    /\ opc = "upsert" /\ pc[1] = "raised"
    /\ Propagates
    /\ ops' = [ops EXCEPT ![idx] = @ \o calls[1]]
    /\ UNCHANGED <<envOk, datasets, idx, fetched, results>>
    /\ UNCHANGED <<engineVars, classVars>>

\* return results
LoopDone ==
    /\ opc = "loop" /\ idx > Len(datasets)
    /\ opc' = "done"
    /\ UNCHANGED <<envOk, datasets, idx, fetched, ops, results>>
    /\ UNCHANGED <<engineVars, classVars>>

NextOrch ==
    \/ RunOneEnter
    \/ FetchQueries
    \/ NoQueries
    \/ LoadKeywords
    \/ AnalyzeAndUpsert
    \/ UpsertReturned
    \/ UpsertRaised
    \/ LoopDone
    \/ StepOk(1)
    \/ StepFails(1)

SpecOrch == InitOrch /\ [][NextOrch]_vars

----------------------------------------------------------------------------
\* analyze_sentiment and last_monday_str.
\*
\* A string is the sequence of its characters, so that lower() and the `in`
\* of two strings are computed and not assumed.  Days are numbered from a
\* Monday: day d falls on weekday d % 7, 0 being Monday as date.weekday() has it.

\* str.lower() on one character
LowerChar(c) ==
    CASE c = "B" -> "b"
      [] c = "F" -> "f"
      [] c = "H" -> "h"
      [] c = "L" -> "l"
      [] c = "S" -> "s"
      [] c = "T" -> "t"
      [] OTHER -> c

\* str.lower()
Lower(str) == [i \in 1..Len(str) |-> LowerChar(str[i])]

\* k in t, for two strings
Contains(t, k) == \E i \in 0..(Len(t) - Len(k)) : SubSeq(t, i + 1, i + Len(k)) = k

\* the elements of a list: set(...)
Range(list) == {list[i] : i \in 1..Len(list)}

\* abs(s)
Abs(s) == IF s < 0 THEN -s ELSE s

\* the literal 'st lucia'
StLucia == <<"s", "t", " ", "l", "u", "c", "i", "a">>

\* the words the queries and the keyword lists are made of
StLuciaTitle == <<"S", "t", " ", "L", "u", "c", "i", "a">>
hotel == <<"h", "o", "t", "e", "l">>
bad == <<"b", "a", "d">>
BadTitle == <<"B", "a", "d">>
fiji == <<"f", "i", "j", "i">>
FijiTitle == <<"F", "i", "j", "i">>
trip == <<"t", "r", "i", "p">>
TripTitle == <<"T", "r", "i", "p">>

\* two words, a blank between them
Join(a, b) == a \o <<" ">> \o b

Words == {StLucia, StLuciaTitle, hotel, bad, BadTitle, fiji, trip}

\* the query strings: one word or two
QueryTexts == Words \cup {Join(a, b) : a, b \in Words}

\* the `queries` lists: one query, or two out of a few
QueryTextLists ==
    {<<q>> : q \in QueryTexts}
    \cup {<<a, b>> : a, b \in {fiji, Join(fiji, bad)}}

\* EXCLUSION_BASE, cut down to one entry
EXCLUSION_BASE == <<hotel>>

\* DEFAULT_DESTINATIONS, cut down to one entry
DEFAULT_DESTINATIONS == <<fiji>>

\* the `destinations` lists: the static list, none, and one not in lower case
DestinationLists == {DEFAULT_DESTINATIONS, <<>>, <<FijiTitle>>}

\* the `ctx_keywords` lists
ContextLists == {<<>>, <<TripTitle>>}

\* the `negative_keywords` lists
NegativeLists == {<<>>, <<bad>>, <<BadTitle>>}

\* sia.polarity_scores(q)['compound'], in tenths
Compounds == {-4, -3, 0, 3, 4}

\* the days date.today() starts from: one week, Monday to Sunday
Days == 7..13

\* today.weekday()
Weekday(d) == d % 7

\* a last_monday_str that steps back to the Sunday
LastSundayStr(d) == [iso |-> d - Weekday(d + 1)]

\* last_monday_str(): today if it is a Monday, else today - timedelta(days=weekday)
LastMondayStr(d) == [iso |-> IF Weekday(d) = 0 THEN d ELSE d - Weekday(d)]

\* any(kw in t for kw in kws)
AnyIn(t, kws) == \E kw \in kws : Contains(t, kw)

\* a 'st lucia' rule that fires only when there is no negatives set
StLuciaOverrideNoNegatives(t, negs) == Contains(t, StLucia) /\ negs = {}

\* 'st lucia' in t and not any(kw in t for kw in negs)
StLuciaOverride(t, negs) == Contains(t, StLucia) /\ ~AnyIn(t, negs)

\* any(ex in t for ex in excl)
ExclusionGate(t, excl) == AnyIn(t, excl)

\* a negative rule that wants the whole query to be the keyword
NegativeOverrideWholeQuery(t, negs) == t \in negs

\* negs and any(kw in t for kw in negs)
NegativeOverride(t, negs) == negs # {} /\ AnyIn(t, negs)

\* a fallback that ignores the destinations
LexiconGateStrongOnly(s, t, dests) == IF Abs(s) > 3 THEN s ELSE 0

\* s if abs(s) > 0.3 or any(d in t for d in dests) else 0.0
LexiconGate(s, t, dests) == IF Abs(s) > 3 \/ AnyIn(t, dests) THEN s ELSE 0

\* a score() that looks at the negatives before the exclusions
ScoreNegativeFirst(q, s, excl, dests, negs) ==
    LET t == Lower(q)
    IN  IF StLuciaOverride(t, negs) THEN 0
        ELSE IF NegativeOverride(t, negs) THEN -10
        ELSE IF ExclusionGate(t, excl) THEN 0
        ELSE LexiconGate(s, t, dests)

\* score(q), s being the compound score the lexicon gives for q
Score(q, s, excl, dests, negs) ==
    LET t == Lower(q)
    IN  IF StLuciaOverride(t, negs) THEN 0
        ELSE IF ExclusionGate(t, excl) THEN 0
        ELSE IF NegativeOverride(t, negs) THEN -10
        ELSE LexiconGate(s, t, dests)

\* excl = set(x.lower() for x in (exclusions + ctx_keywords))
Excl == {Lower(x) : x \in Range(exclusions \o ctx_keywords)}

\* dests = set(destinations)
Dests == Range(destinations)

\* negs = set(negative_keywords or [])
Negs == Range(negative_keywords)

\* the clock, before any call: some day of the week
InitClassify ==
    /\ EngineInit
    /\ OrchIdle
    /\ today \in Days
    /\ apc = "idle"
    /\ queries = <<>>
    /\ destinations = <<>>
    /\ exclusions = <<>>
    /\ ctx_keywords = <<>>
    /\ negative_keywords = <<>>
    /\ lex = <<>>
    /\ monday = LastMondayStr(today)
    /\ out = <<>>

\* the call, down to `monday = last_monday_str()` and `out = []`
AnalyzeSentiment ==
    /\ apc = "idle"
    /\ queries' \in QueryTextLists
    /\ destinations' \in DestinationLists
    /\ exclusions' = EXCLUSION_BASE
    /\ ctx_keywords' \in ContextLists
    /\ negative_keywords' \in NegativeLists
    /\ monday' = LastMondayStr(today)
    /\ out' = <<>>
    /\ lex' = <<>>
    /\ apc' = "loop"
    /\ UNCHANGED today
    /\ UNCHANGED <<engineVars, orchVars>>

\* one turn of `for q in queries`: the lexicon gives the same query the same score
ClassifyNext ==
    /\ apc = "loop" /\ Len(out) < Len(queries)
    /\ LET q == queries[Len(out) + 1]
       IN  \E c \in Compounds :
              /\ \A j \in 1..Len(out) : queries[j] = q => lex[j] = c
              /\ lex' = Append(lex, c)
              /\ out' = Append(out,
                           [query |-> q,
                            Sentiment_Score |-> Score(q, c, Excl, Dests, Negs),
                            Sentiment_Category |-> Category(Score(q, c, Excl, Dests, Negs)),
                            MONDAY |-> monday])
    /\ UNCHANGED <<today, apc, queries, destinations, exclusions, ctx_keywords,
                   negative_keywords, monday>>
    /\ UNCHANGED <<engineVars, orchVars>>

\* return out
AnalyzeReturn ==
    /\ apc = "loop" /\ Len(out) = Len(queries)
    /\ apc' = "returned"
    /\ UNCHANGED <<today, queries, destinations, exclusions, ctx_keywords,
                   negative_keywords, lex, monday, out>>
    /\ UNCHANGED <<engineVars, orchVars>>

\* midnight passes while the batch is being classified
DayRolls ==
    /\ apc = "loop" /\ today \in Days
    /\ today' = today + 1
    /\ UNCHANGED <<apc, queries, destinations, exclusions, ctx_keywords,
                   negative_keywords, lex, monday, out>>
    /\ UNCHANGED <<engineVars, orchVars>>

\* One analyze_sentiment call on any of the inputs, the date free to advance.
NextClassify ==
    \/ AnalyzeSentiment
    \/ ClassifyNext
    \/ AnalyzeReturn
    \/ DayRolls

SpecClassify == InitClassify /\ [][NextClassify]_vars

----------------------------------------------------------------------------
\* Properties of the merge.

\* invocation p's MERGE statement has just executed and committed
MergeCommits(p) == pc[p] = "merge" /\ pc'[p] = "delete"

\* batch row s gives a score or a category other than the stored row t holds
Differs(t, s) ==
    \/ t.Sentiment_Score # s.Sentiment_Score
    \/ t.Sentiment_Category # s.Sentiment_Category

\* the rows of `rows` for query q
RowsFor(rows, q) == {i \in 1..Len(rows) : rows[i].query = q}

\* C1: once a row for a query is written, its inserted_at and its MONDAY are the
\* same in every later state (rows are never removed, and every step leaves the
\* query, inserted_at and MONDAY of every stored row as they were).
C1_InsertedAtNeverChanges ==
    [][\A d \in Datasets :
          /\ Len(target'[d]) >= Len(target[d])
          /\ \A i \in 1..Len(target[d]) :
                /\ target'[d][i].query = target[d][i].query
                /\ target'[d][i].inserted_at = target[d][i].inserted_at
                /\ target'[d][i].MONDAY = target[d][i].MONDAY]_vars

\* a stored row was updated by a batch stamped with another MONDAY than its own
C1_Witness ==
    \E i \in 1..Len(target["d1"]) :
        /\ target["d1"][i].updated_at > target["d1"][i].inserted_at
        /\ target["d1"][i].updated_at = now
        /\ \E j \in RowsFor(merged.last, target["d1"][i].query) :
              DateOf(merged.last[j].MONDAY) # target["d1"][i].MONDAY

\* C2: in every run, the updated_at of a row already stored changes exactly when
\* the batch holds, for its query, a score or a category other than the stored
\* one; when it holds none, the whole row stays as it was.  Only the committed
\* MERGE of a run changes the target at all.
C2_UpdatedAtIffChanged ==
    [][\A p \in Procs :
          IF MergeCommits(p)
          THEN \A i \in 1..Len(target[dataset[p]]) :
                  LET t == target[dataset[p]][i]
                      u == target'[dataset[p]][i]
                      differs == \E j \in RowsFor(batch[p], t.query) : Differs(t, batch[p][j])
                  IN  /\ (u.updated_at # t.updated_at) <=> differs
                      /\ ~differs => u = t
          ELSE pc'[p] # pc[p] => target' = target]_vars

\* one merge updated a stored row and left another, also in its batch, untouched
C2_Witness ==
    /\ pc[1] = "delete"
    /\ \E i, k \in 1..Len(target["d1"]) :
          /\ {target["d1"][i].query, target["d1"][k].query} \subseteq QueriesOf(batch[1])
          /\ target["d1"][i].inserted_at < now /\ target["d1"][i].updated_at = now
          /\ target["d1"][k].updated_at < now

\* exactly one row of `rows` per query of `b`, and no other row
OneRowPerQuery(rows, b) ==
    /\ QueriesOf(rows) = QueriesOf(b)
    /\ NoRepeats(rows)

\* the statement of idempotence for the batch `b`, run twice on the empty table
IdempotentFor(b) ==
    /\ merged.n >= 1 /\ merged.first = b =>
          /\ OneRowPerQuery(merged.snap, b)
          /\ \A i \in 1..Len(merged.snap) :
                merged.snap[i].inserted_at = merged.snap[i].updated_at
    /\ merged.n = 2 /\ merged.first = b /\ merged.last = b => target["d1"] = merged.snap

\* C3 as stated: for ANY non-empty batch, two runs leave one row per distinct
\* query, inserted_at = updated_at after the first, nothing changed by the second.
C3_IdempotentAnyBatch == \A b \in Batches : IdempotentFor(b)

\* C3 as amended: the same for every batch that holds no query twice.
C3_IdempotentUniqueBatch == \A b \in Batches : NoRepeats(b) => IdempotentFor(b)

\* a batch of two distinct queries was merged twice, and the second run returned
C3_Witness ==
    /\ merged.n = 2 /\ merged.first = merged.last
    /\ NoRepeats(merged.first) /\ Len(merged.first) = 2
    /\ pc[1] = "returned"

\* the batch gives query q one score and one category
SingleValued(rows, q) ==
    \A j, k \in RowsFor(rows, q) :
        /\ rows[j].Sentiment_Score = rows[k].Sentiment_Score
        /\ rows[j].Sentiment_Category = rows[k].Sentiment_Category

\* every stored row of query q holds the score and category of batch row s
StoredEquals(rows, q, s) ==
    /\ RowsFor(rows, q) # {}
    /\ \A i \in RowsFor(rows, q) :
          /\ rows[i].Sentiment_Score = s.Sentiment_Score
          /\ rows[i].Sentiment_Category = s.Sentiment_Category

\* C4: last classification wins.  When a run has completed, the stored score and
\* category of every query of its batch are the batch's; and its merge moves the
\* updated_at of every row whose values differed strictly forward, leaving
\* inserted_at alone.
C4_LastClassificationWins ==
    /\ [](\A j \in 1..Len(batch[1]) :
            pc[1] = "returned" /\ SingleValued(batch[1], batch[1][j].query)
            => StoredEquals(target[dataset[1]], batch[1][j].query, batch[1][j]))
    /\ [][\A p \in Procs : MergeCommits(p) =>
            \A j \in 1..Len(batch[p]) : SingleValued(batch[p], batch[p][j].query) =>
               /\ StoredEquals(target'[dataset[p]], batch[p][j].query, batch[p][j])
               /\ \A i \in RowsFor(target[dataset[p]], batch[p][j].query) :
                     Differs(target[dataset[p]][i], batch[p][j]) =>
                        /\ target'[dataset[p]][i].updated_at > target[dataset[p]][i].updated_at
                        /\ target'[dataset[p]][i].inserted_at = target[dataset[p]][i].inserted_at]_vars

\* a run has completed whose batch changed the values stored for one of its queries
C4_Witness ==
    /\ pc[1] = "returned"
    /\ \E i \in 1..Len(target["d1"]) :
          /\ target["d1"][i].query \in QueriesOf(batch[1])
          /\ target["d1"][i].updated_at = now
          /\ target["d1"][i].inserted_at < now

\* C5: whatever the interleaving of the invocations' storage calls, the target
\* never holds two rows with the same query (each batch holding each query once).
C5_OneRowPerQuery == \A d \in Datasets : NoRepeats(target[d])

\* two invocations whose batches share a query both merged before either dropped
\* its staging table, and the query is stored
C5_Witness ==
    /\ pc[1] = "delete" /\ pc[2] = "delete"
    /\ QueriesOf(batch[1]) \cap QueriesOf(batch[2]) # {}
    /\ QueriesOf(batch[1]) \cup QueriesOf(batch[2]) = QueriesOf(target["d1"])

----------------------------------------------------------------------------
\* Properties of the orchestration and of the failure handling.

\* C6: when run_one raises for one dataset, every later dataset of the list is
\* still attempted and reported: where the exception of client idx has ended
\* the run, every client i after it was entered, and `results` holds a result
\* for each of the i - 1 clients other than idx up to it.
C6_ClientsIsolated ==
    opc = "aborted" =>
        \A i \in (idx + 1)..Len(datasets) : ops[i] # <<>> /\ Len(results) >= i - 1

\* C7: a client whose fetch_queries gave the empty list (the query having raised
\* or not) sees no call beyond the client construction and the fetch: no keyword
\* load, no upsert and none of its storage calls; run_one does not raise for it,
\* and its result, once reported, has rows = 0.
C7_EmptyShortCircuit ==
    \A i \in 1..Len(datasets) :
        fetched[i].done /\ fetched[i].queries = <<>> =>
            /\ ops[i] = <<"get_bq_client", "fetch_queries">>
            /\ ~(opc = "aborted" /\ idx = i)
            /\ idx = i => opc = "fetched" /\ pc[1] \in {"idle", "returned"}
            /\ idx > i => /\ Len(results) >= i
                          /\ results[i].dataset = datasets[i]
                          /\ results[i].rows = 0

\* the query of a client raised, the client was reported with rows = 0, and the
\* loop went on to the next client
C7_Witness ==
    \E i \in 1..Len(datasets) :
        /\ fetched[i].raised
        /\ Len(results) >= i /\ results[i].rows = 0
        /\ idx > i /\ idx <= Len(datasets) /\ opc = "fetch"

\* invocation p has materialised its staging table
Staged(p) == failed[p] # "load" /\ \E i \in 1..Len(calls[p]) : calls[p][i] = "load"

\* invocation p has issued the delete of its staging table
DeleteIssued(p) == \E i \in 1..Len(calls[p]) : calls[p][i] = "delete"

\* C8: every invocation that materialised its staging table has issued the
\* delete of it by the time it ends, whether its merge succeeded or failed.
C8_StagingAlwaysDropped == \A p \in Procs : Ended(p) /\ Staged(p) => DeleteIssued(p)

\* the storage calls of upsert_rows_to_bq, in the order of the code
CallOrder == <<"ensure", "load", "merge", "delete">>

\* C9: the storage calls are issued in the order ensure, load, merge, delete; the
\* invocation raises exactly when ensure, load or merge failed, and then the
\* failed call is its last one; a failed delete does not make it raise, and no
\* delete step and no failing step changes the target.
C9_FailureSemantics ==
    /\ [](\A p \in Procs :
            /\ Len(calls[p]) <= Len(CallOrder)
            /\ calls[p] = SubSeq(CallOrder, 1, Len(calls[p]))
            /\ Ended(p) => (pc[p] = "raised" <=> failed[p] \in {"ensure", "load", "merge"})
            /\ failed[p] \in {"ensure", "load", "merge"} =>
                  pc[p] = "raised" /\ calls[p][Len(calls[p])] = failed[p]
            /\ failed[p] = "delete" => pc[p] = "returned")
    /\ [][\A p \in Procs :
            /\ pc[p] = "delete" /\ pc'[p] # "delete" => target' = target
            /\ pc'[p] = "raised" /\ pc[p] # "raised" => target' = target]_vars

\* a run merged its rows, failed to drop its staging table, and returned
C9_Witness ==
    /\ pc[1] = "returned" /\ failed[1] = "delete"
    /\ staging[StagingId(1)].exists
    /\ target["d1"] # <<>>

\* the batch rows a staging table holds, the provisional timestamps dropped
Unstaged(rows) ==
    [i \in 1..Len(rows) |->
        [query |-> rows[i].query,
         Sentiment_Score |-> rows[i].Sentiment_Score,
         Sentiment_Category |-> rows[i].Sentiment_Category,
         MONDAY |-> rows[i].MONDAY]]

\* C10: two invocations in progress on the same dataset never have the same
\* staging table, and an invocation about to merge finds in its staging table
\* the rows it loaded itself.
C10_StagingPrivate ==
    \A p \in Procs :
        /\ \A r \in Procs \ {p} :
              Active(p) /\ Active(r) /\ dataset[p] = dataset[r] => StagingId(p) # StagingId(r)
        /\ pc[p] = "merge" =>
              /\ staging[StagingId(p)].exists
              /\ Unstaged(staging[StagingId(p)].rows) = batch[p]

----------------------------------------------------------------------------
\* Properties of the classifier.
\*
\* A keyword set holds lower-cased substrings, and a query contains a keyword
\* when its case-folded text does.  A supplied keyword that is not in lower
\* case is no keyword in that sense; what the classifier makes of one is the
\* matter of C16.

\* the case-folded text of query i contains 'st lucia'
HasStLucia(i) == Contains(Lower(queries[i]), StLucia)

\* query i contains a keyword of the negatives set
HasNegative(i) ==
    \E kw \in Range(negative_keywords) : kw = Lower(kw) /\ Contains(Lower(queries[i]), kw)

\* query i contains an exclusion: an entry of the base list or a context keyword
HasExclusion(i) ==
    \E ex \in Range(exclusions) \cup Range(ctx_keywords) :
        Contains(Lower(queries[i]), Lower(ex))

\* query i contains a destination
HasDestination(i) ==
    \E d \in Range(destinations) : d = Lower(d) /\ Contains(Lower(queries[i]), d)

\* C11: every query that contains "st lucia" and no negative keyword scores 0.0,
\* whatever the lexicon gives and whatever exclusions or destinations it
\* contains; with an empty negatives set, every query containing "st lucia".
C11_StLuciaOverride ==
    \A i \in 1..Len(out) :
        /\ HasStLucia(i) /\ ~HasNegative(i) => out[i].Sentiment_Score = 0
        /\ HasStLucia(i) /\ negative_keywords = <<>> => out[i].Sentiment_Score = 0

\* a query spelt "St Lucia" that also names a destination, which the lexicon
\* scores -0.4, was classified 0.0 under a negatives set it contains nothing of
C11_Witness ==
    \E i \in 1..Len(out) :
        /\ HasStLucia(i) /\ queries[i] # Lower(queries[i])
        /\ HasDestination(i) /\ ~HasExclusion(i)
        /\ negative_keywords # <<>> /\ ~HasNegative(i)
        /\ lex[i] = -4
        /\ out[i].Sentiment_Score = 0

\* C12: every query that contains an exclusion (base list or context keyword)
\* scores 0.0, also when it contains a negative keyword, whatever the lexicon
\* gives.
C12_ExclusionGate ==
    \A i \in 1..Len(out) : HasExclusion(i) => out[i].Sentiment_Score = 0

\* a query holding an exclusion and a negative keyword, and no "st lucia", which
\* the lexicon scores -0.4, was classified 0.0
C12_Witness ==
    \E i \in 1..Len(out) :
        /\ HasExclusion(i) /\ HasNegative(i) /\ ~HasStLucia(i)
        /\ lex[i] = -4
        /\ out[i].Sentiment_Score = 0

\* C13: every query that contains a keyword of a non-empty negatives set and no
\* exclusion scores exactly -1.0 and is categorised negative, whatever the
\* lexicon gives, "st lucia" in the query or not.
C13_NegativeOverride ==
    \A i \in 1..Len(out) :
        negative_keywords # <<>> /\ HasNegative(i) /\ ~HasExclusion(i) =>
            /\ out[i].Sentiment_Score = -10
            /\ out[i].Sentiment_Category = "negative"

\* a query holding "st lucia" and a negative keyword, which the lexicon scores
\* 0.4, was classified -1.0
C13_Witness ==
    \E i \in 1..Len(out) :
        /\ HasStLucia(i) /\ HasNegative(i) /\ ~HasExclusion(i)
        /\ lex[i] = 4
        /\ out[i].Sentiment_Score = -10
        /\ out[i].Sentiment_Category = "negative"

\* C14: a row is positive exactly when its score is above 0.3, negative exactly
\* when it is below -0.3, neutral otherwise (0.3 and -0.3 included); rows of
\* equal score have equal categories.
C14_CategoryThresholds ==
    /\ \A i \in 1..Len(out) :
          /\ out[i].Sentiment_Category \in {"positive", "negative", "neutral"}
          /\ out[i].Sentiment_Category = "positive" <=> out[i].Sentiment_Score > 3
          /\ out[i].Sentiment_Category = "negative" <=> out[i].Sentiment_Score < -3
          /\ out[i].Sentiment_Score \in {3, -3} => out[i].Sentiment_Category = "neutral"
    /\ \A i, j \in 1..Len(out) :
          out[i].Sentiment_Score = out[j].Sentiment_Score =>
             out[i].Sentiment_Category = out[j].Sentiment_Category

\* one call classified two different queries at the boundary 0.3, both neutral
C14_Witness ==
    /\ Len(out) = 2
    /\ queries[1] # queries[2]
    /\ out[1].Sentiment_Score = 3 /\ out[2].Sentiment_Score = 3
    /\ out[1].Sentiment_Category = "neutral" /\ out[2].Sentiment_Category = "neutral"

\* C15: a query that holds no "st lucia", no exclusion and no negative keyword
\* gets the lexicon's compound score c as it is when |c| > 0.3 or the query
\* contains a destination, and 0.0 otherwise.
C15_LexiconFallbackGate ==
    \A i \in 1..Len(out) :
        ~HasStLucia(i) /\ ~HasExclusion(i) /\ ~HasNegative(i) =>
            out[i].Sentiment_Score =
                IF Abs(lex[i]) > 3 \/ HasDestination(i) THEN lex[i] ELSE 0

\* a weak score -0.3 was kept for a query that names a destination, under a
\* non-empty negatives set the query contains nothing of
C15_Witness ==
    /\ negative_keywords # <<>>
    /\ \E i \in 1..Len(out) :
          /\ ~HasStLucia(i) /\ ~HasExclusion(i) /\ ~HasNegative(i)
          /\ HasDestination(i)
          /\ lex[i] = -3
          /\ out[i].Sentiment_Score = -3

\* C16: whether a query is treated as containing a keyword does not depend on
\* the letter-casing of either: every row's score is the one the classifier
\* gives when the query and all three keyword sets are case-folded first.
C16_CaseInsensitive ==
    \A i \in 1..Len(out) :
        out[i].Sentiment_Score =
            Score(Lower(queries[i]), lex[i],
                  {Lower(x) : x \in Excl}, {Lower(x) : x \in Dests}, {Lower(x) : x \in Negs})

\* the run date is the most recent Monday on or before day d
RunDateOf(m, d) ==
    /\ Weekday(DateOf(m)) = 0
    /\ d - DateOf(m) \in 0..6
    /\ Weekday(d) = 0 => DateOf(m) = d

\* C17: every row of one call carries the same MONDAY, the one fixed when the
\* batch started: the most recent Monday on or before that day (the day itself
\* when it is a Monday, else 1 to 6 days earlier), and it stays what it is when
\* the date advances while the batch is being classified.
C17_SharedRunDate ==
    /\ [](\A i \in 1..Len(out) : out[i].MONDAY = monday)
    /\ [][/\ apc = "idle" /\ apc' = "loop" => RunDateOf(monday', today)
          /\ apc = "loop" => monday' = monday /\ SubSeq(out', 1, Len(out)) = out]_vars

\* a call returned two rows of one MONDAY after the date had moved into the next week
C17_Witness ==
    /\ apc = "returned"
    /\ Len(out) = 2
    /\ out[1].MONDAY = out[2].MONDAY
    /\ today - DateOf(out[1].MONDAY) > 6

====
